---- MODULE Spec2Model ----
(***************************************************************************)
(* Model of the PUB LOG tooling of this repository:                        *)
(*   - decompress_publog.py: IMD2Decompressor (decompress_file,            *)
(*     _decompress_imd2, _simple_extract, _looks_like_text_data) and the   *)
(*     batch driver main();                                                *)
(*   - publog_decompress.py: extract_nsn_data_for_import.                  *)
(* Bytes are integers 0..255, byte strings are sequences of them; Python's *)
(* 0-based indices are kept (At(d, k) is d[k]).                            *)
(***************************************************************************)
EXTENDS Integers, Sequences, FiniteSets, TLC

VARIABLES
    input_files,    \* main: the list of input files, each the file's bytes
    idx,            \* main: 0-based position of the for loop in input_files
    success_count,  \* main: success_count
    exit_status,    \* main: value returned by main, -1 while it runs
    pc,             \* position of the control flow
    base,           \* decompress_file: file offset at which infile.read() began
    data,           \* _decompress_imd2: its argument (compressed_data)
    offset,         \* _decompress_imd2: offset
    i,              \* _decompress_imd2: i
    result,         \* _decompress_imd2: result
    start_pos,      \* _simple_extract: start_pos, -1 before it has run
    writes,         \* contents written to the current file's output, with their producer
    primary,        \* outcome of the try block of decompress_file for the current file
    fallback,       \* outcome of the except block of decompress_file for the current file
    calls,          \* history: the positions decompress_file was called with
    rets,           \* history: the values decompress_file returned
    io_failed,      \* history: some open() of the batch failed
    nsn_file,       \* extract_nsn_data_for_import: the item-master table on disk
    part_file,      \* the part cross-reference table on disk
    cage_file,      \* the vendor/address table on disk
    jpc,            \* position of extract_nsn_data_for_import
    nsn_data,       \* nsn_data
    part_map,       \* part_map
    cage_map,       \* cage_map
    csv_rows        \* the rows written to output_csv, header first

decoder_vars == <<input_files, idx, success_count, exit_status, pc, base, data, offset, i,
                  result, start_pos, writes, primary, fallback, calls, rets, io_failed>>
join_vars == <<nsn_file, part_file, cage_file, jpc, nsn_data, part_map, cage_map, csv_rows>>
vars == <<decoder_vars, join_vars>>

----------------------------------------------------------------------------
(* Program constants. *)

SIG_LEN == 4
MIN_LEN == 8
HEADER_SKIP == 8
MARKER_LIMIT == 128
SCAN_LIMIT == 1024
WINDOW == 100

IMD2 == <<73, 77, 68, 50>>

(* Program constants of extract_nsn_data_for_import. *)
NSN_MIN_FIELDS == 7
PART_MIN_FIELDS == 4
CAGE_MIN_FIELDS == 2
NSN_LEN == 13
AAC_FIELD == 11

(* Bounds of the model. *)
MaxBody == 3
MaxFiles == 2
MaxRows == 4

----------------------------------------------------------------------------
(* Byte-string helpers standing for Python's built-in operations. *)

At(d, k) == d[k + 1]

\* d[a:b] with 0 <= a
Slice(d, a, b) == SubSeq(d, a + 1, IF b < Len(d) THEN b ELSE Len(d))

\* d[a:]
From(d, a) == SubSeq(d, a + 1, Len(d))

\* [v] * n
Rep(v, n) == [k \in 1..n |-> v]

Min(a, b) == IF a < b THEN a ELSE b

----------------------------------------------------------------------------
(* The inputs the model draws.  A file is a header followed by a body of at *)
(* most MaxBody bytes over Bytes; long files carry a 100-byte window for    *)
(* the extractor.                                                           *)

\* NUL, a control byte that is also a run count, tab, space, 'A', 0x80
Bytes == {0, 3, 9, 32, 65, 128}

RECURSIVE SeqsUpTo(_, _)
SeqsUpTo(S, n) ==
    IF n = 0 THEN {<<>>}
    ELSE LET shorter == SeqsUpTo(S, n - 1)
         IN  shorter \cup {Append(s, b) : s \in {t \in shorter : Len(t) = n - 1}, b \in S}

Headers ==
    { <<>>,                                  \* no header at all
      IMD2,                                  \* the signature alone
      IMD2 \o <<0, 0, 0, 3>>,                \* signature and length field
      IMD2 \o <<0, 0, 0, 3, 65>>,            \* signature, length field, one payload byte
      IMD2 \o IMD2 \o <<0, 0, 0, 3>>,        \* signature twice, then a length field
      <<73, 77, 68, 51, 65, 65, 65, 0>> }    \* eight bytes that are not the signature

ShortFiles == {h \o b : h \in Headers, b \in SeqsUpTo(Bytes, MaxBody)}

\* junk, a tab, letters and control bytes: windows on both sides of the 0.8 ratio
LongFiles ==
    {Rep(0, j) \o <<65, 9>> \o Rep(65, 99 - m) \o Rep(3, m) \o t :
        j \in 0..2, m \in {20, 21}, t \in {<<>>, <<65>>, <<3, 65>>}}

\* files around each condition of the extractor's scan: a window that ends with
\* the file and one that ends a byte before it, a window that begins with a
\* byte the scan does not start on, a window with bytes the decoding drops on
\* both sides of the 0.8 ratio, and a first window at and just past the limit
\* of the scan
WindowFiles ==
    { <<128>> \o Rep(65, 99) \o <<9>>,
      <<128>> \o Rep(65, 99) \o <<9, 65>>,
      <<45, 9>> \o Rep(65, 98) \o <<65, 65>>,
      <<45, 45, 9>> \o Rep(65, 98) \o <<65>>,
      <<128, 65, 9>> \o Rep(65, 71) \o Rep(128, 10) \o Rep(3, 17) \o <<65, 65>>,
      <<128, 65, 9>> \o Rep(65, 70) \o Rep(128, 10) \o Rep(3, 18) \o <<65, 65>>,
      Rep(128, 100) \o <<65>>,
      Rep(128, SCAN_LIMIT - 1) \o Rep(65, 99) \o <<9, 65>>,
      Rep(128, SCAN_LIMIT) \o Rep(65, 99) \o <<9, 65>> }

Files == ShortFiles \cup LongFiles \cup WindowFiles

BatchFiles ==
    { <<65, 0, 3>>,                                  \* too short: decoding raises
      IMD2 \o <<0, 0, 0, 3>>,                        \* signature and length field only
      <<73, 77, 68, 51, 65, 65, 65, 0, 0, 3, 65>> }  \* decodes

BatchLists == {l \in SeqsUpTo(BatchFiles, MaxFiles) : Len(l) # 1}

----------------------------------------------------------------------------
(* _looks_like_text_data and _simple_extract as functions of the bytes.     *)

\* data.decode('utf-8', errors='ignore') for ASCII bytes and stray
\* continuation bytes (0x80..0xBF), which the decoder drops; the model draws
\* no lead byte of a multi-byte sequence
Utf8Ignore(d) == SelectSeq(d, LAMBDA b : b < 128)

\* str.isalnum for an ASCII character
IsAlnum(c) == (c >= 48 /\ c <= 57) \/ (c >= 65 /\ c <= 90) \/ (c >= 97 /\ c <= 122)

\* c.isprintable() or c in '\t\n\r' for an ASCII character
IsPrintableOrWs(c) == (c >= 32 /\ c <= 126) \/ c \in {9, 10, 13}

Count(s, P(_)) == Len(SelectSeq(s, P))

\* len(text) = 0 divides by zero, which the except clause turns into False
looks_like_text_data(sample) ==
    LET text == Utf8Ignore(sample)
        has_tabs == \E k \in 1..Len(text) : text[k] = 9
        has_alnum == \E k \in 1..Len(text) : IsAlnum(text[k])
    IN  IF Len(text) = 0 THEN FALSE
        ELSE has_tabs /\ has_alnum /\ 10 * Count(text, IsPrintableOrWs) > 8 * Len(text)

\* StartCandidate taking a window that ends with the buffer
StartCandidate_WindowToEnd(d, k) ==
    /\ IsAlnum(At(d, k)) \/ At(d, k) \in {9, 10, 13, 32}
    /\ k + WINDOW <= Len(d)
    /\ looks_like_text_data(Slice(d, k, k + WINDOW))

\* the condition of the if statement inside the for loop
StartCandidate(d, k) ==
    /\ IsAlnum(At(d, k)) \/ At(d, k) \in {9, 10, 13, 32}
    /\ k + WINDOW < Len(d)
    /\ looks_like_text_data(Slice(d, k, k + WINDOW))

\* the for loop: the first position that passes, by its break; 0 when none does
FindStart(d) ==
    LET found == {k \in 0..(Min(SCAN_LIMIT, Len(d)) - 1) : StartCandidate(d, k)}
    IN  IF found = {} THEN 0
        ELSE CHOOSE k \in found : \A other \in found : k <= other

\* Kept with the exception for tab, line feed and carriage return forgotten
Kept_NoWhitespaceException(byte) ==
    IF byte = 0 THEN FALSE
    ELSE IF byte < 32 THEN FALSE
    ELSE TRUE

\* the body of the cleaning loop: whether byte is appended to cleaned
Kept(byte) ==
    IF byte = 0 THEN FALSE
    ELSE IF byte < 32 /\ byte \notin {9, 10, 13} THEN FALSE
    ELSE TRUE

\* the cleaning loop: the bytes it appends, in order
cleaned(extracted) == SelectSeq(extracted, Kept)

simple_extract(d) == cleaned(From(d, FindStart(d)))

----------------------------------------------------------------------------
(* _decompress_imd2. *)

PayloadOffset(d) == IF Slice(d, 0, SIG_LEN) = IMD2 THEN HEADER_SKIP ELSE 0

\* IsRunMarker with the upper limit of the count included
IsRunMarker_LimitIncluded(d, k) ==
    /\ k + 1 < Len(d)
    /\ At(d, k) = 0 /\ At(d, k + 1) > 0 /\ At(d, k + 1) <= MARKER_LIMIT
    /\ k + 2 < Len(d)

\* the conditions under which the loop body expands a run at position k
IsRunMarker(d, k) ==
    /\ k + 1 < Len(d)
    /\ At(d, k) = 0 /\ At(d, k + 1) > 0 /\ At(d, k + 1) < MARKER_LIMIT
    /\ k + 2 < Len(d)

----------------------------------------------------------------------------
(* The state after argument parsing: main is about to enter its for loop.   *)

InitFile ==
    /\ base = 0 /\ data = <<>> /\ offset = 0 /\ i = 0 /\ result = <<>>
    /\ start_pos = -1 /\ writes = <<>>
    /\ primary = "none" /\ fallback = "none"

\* extract_nsn_data_for_import has not been called
JoinIdle ==
    /\ nsn_file = [exists |-> FALSE, rows |-> <<>>]
    /\ part_file = [exists |-> FALSE, rows |-> <<>>]
    /\ cage_file = [exists |-> FALSE, rows |-> <<>>]
    /\ jpc = "idle"
    /\ nsn_data = <<>> /\ part_map = <<>> /\ cage_map = <<>> /\ csv_rows = <<>>

Init ==
    /\ input_files \in {<<f>> : f \in Files} \cup BatchLists
    /\ idx = 0 /\ success_count = 0 /\ exit_status = -1
    /\ pc = "main"
    /\ InitFile
    /\ calls = <<>> /\ rets = <<>> /\ io_failed = FALSE
    /\ JoinIdle

file == input_files[idx + 1]

main_vars == <<input_files, idx, success_count, exit_status, calls, rets>>
scan_vars == <<base, data, offset, i, result>>

\* main, for loop: the next input file is handed to decompress_file
MainCall ==
    /\ pc = "main" /\ idx < Len(input_files)
    /\ calls' = Append(calls, idx)
    /\ pc' = "open"
    /\ base' = 0 /\ data' = <<>> /\ offset' = 0 /\ i' = 0 /\ result' = <<>>
    /\ start_pos' = -1 /\ writes' = <<>>
    /\ primary' = "running" /\ fallback' = "none"
    /\ UNCHANGED join_vars
    /\ UNCHANGED <<input_files, idx, success_count, exit_status, rets, io_failed>>

\* decompress_file: open the input, read the 4 header bytes, seek back only
\* when they are not the signature, read the rest
OpenInput ==
    /\ pc = "open"
    /\ \E ok \in BOOLEAN :
        IF ok
        THEN LET header == Slice(file, 0, SIG_LEN)
                 pos == IF header # IMD2 THEN 0 ELSE Len(header)
             IN  /\ base' = pos
                 /\ data' = From(file, pos)
                 /\ pc' = "decode"
                 /\ UNCHANGED <<primary, io_failed>>
        ELSE /\ primary' = "OSError" /\ io_failed' = TRUE
             /\ pc' = "except"
             /\ UNCHANGED <<base, data>>
    /\ UNCHANGED join_vars
    /\ UNCHANGED <<main_vars, offset, i, result, start_pos, writes, fallback>>

\* _decompress_imd2 up to the while loop: the length check and the offset
EnterDecoder ==
    /\ pc = "decode"
    /\ IF Len(data) < MIN_LEN
       THEN /\ primary' = "ValueError"
            /\ pc' = "except"
            /\ UNCHANGED <<offset, i>>
       ELSE /\ offset' = PayloadOffset(data)
            /\ i' = PayloadOffset(data)
            /\ pc' = "scan"
            /\ UNCHANGED primary
    /\ UNCHANGED join_vars
    /\ UNCHANGED <<main_vars, base, data, result, start_pos, writes, fallback, io_failed>>

\* RunBytes with count and value taken from each other's byte
RunBytes_Swapped(d, k) == Rep(At(d, k + 1), At(d, k + 2))

\* result.extend([value] * count) at position k
RunBytes(d, k) == Rep(At(d, k + 2), At(d, k + 1))

\* one iteration of the while loop
ScanStep ==
    /\ pc = "scan" /\ i < Len(data)
    /\ IF IsRunMarker(data, i)
       THEN /\ result' = result \o RunBytes(data, i)
            /\ i' = i + 3
       ELSE /\ result' = Append(result, At(data, i))
            /\ i' = i + 1
    /\ UNCHANGED join_vars
    /\ UNCHANGED <<main_vars, pc, base, data, offset, start_pos, writes, primary,
                   fallback, io_failed>>

\* the loop ends, the result is returned and written to the output file
WriteDecoded ==
    /\ pc = "scan" /\ i >= Len(data)
    /\ \E ok \in BOOLEAN :
        IF ok
        THEN /\ writes' = Append(writes, [by |-> "decoder", bytes |-> result])
             /\ primary' = "completed"
             /\ rets' = Append(rets, TRUE)
             /\ pc' = "returned"
             /\ UNCHANGED io_failed
        ELSE /\ primary' = "OSError" /\ io_failed' = TRUE
             /\ pc' = "except"
             /\ UNCHANGED <<writes, rets>>
    /\ UNCHANGED join_vars
    /\ UNCHANGED <<input_files, idx, success_count, exit_status, calls, scan_vars,
                   start_pos, fallback>>

\* SimpleExtractCall returning True also when _simple_extract raised
SimpleExtractCall_AlwaysTrue ==
    /\ pc = "except"
    /\ \E okIn \in BOOLEAN, okOut \in BOOLEAN :
        IF okIn
        THEN /\ start_pos' = FindStart(file)
             /\ IF okOut
                THEN /\ writes' = Append(writes, [by |-> "extractor",
                                                  bytes |-> simple_extract(file)])
                     /\ fallback' = "completed"
                     /\ UNCHANGED io_failed
                ELSE /\ fallback' = "raised" /\ io_failed' = TRUE
                     /\ UNCHANGED writes
        ELSE /\ fallback' = "raised" /\ io_failed' = TRUE
             /\ UNCHANGED <<start_pos, writes>>
    /\ rets' = Append(rets, TRUE)
    /\ pc' = "returned"
    /\ UNCHANGED join_vars
    /\ UNCHANGED <<input_files, idx, success_count, exit_status, calls, scan_vars,
                   primary>>

\* the except clause: _simple_extract on the same paths, False when it raises
SimpleExtractCall ==
    /\ pc = "except"
    /\ \E okIn \in BOOLEAN, okOut \in BOOLEAN :
        IF okIn
        THEN /\ start_pos' = FindStart(file)
             /\ IF okOut
                THEN /\ writes' = Append(writes, [by |-> "extractor",
                                                  bytes |-> simple_extract(file)])
                     /\ fallback' = "completed"
                     /\ rets' = Append(rets, TRUE)
                     /\ UNCHANGED io_failed
                ELSE /\ fallback' = "raised" /\ io_failed' = TRUE
                     /\ rets' = Append(rets, FALSE)
                     /\ UNCHANGED writes
        ELSE /\ fallback' = "raised" /\ io_failed' = TRUE
             /\ rets' = Append(rets, FALSE)
             /\ UNCHANGED <<start_pos, writes>>
    /\ pc' = "returned"
    /\ UNCHANGED join_vars
    /\ UNCHANGED <<input_files, idx, success_count, exit_status, calls, scan_vars,
                   primary>>

\* main: the if around the call counts a True, the loop moves on
MainCount ==
    /\ pc = "returned"
    /\ success_count' = IF rets[Len(rets)] THEN success_count + 1 ELSE success_count
    /\ idx' = idx + 1
    /\ pc' = "main"
    /\ UNCHANGED join_vars
    /\ UNCHANGED <<input_files, exit_status, calls, rets, scan_vars, start_pos, writes,
                   primary, fallback, io_failed>>

\* MainExit with the exit status taken from success_count > 0
MainExit_AnySuccess ==
    /\ pc = "main" /\ idx >= Len(input_files)
    /\ exit_status' = IF success_count > 0 THEN 0 ELSE 1
    /\ pc' = "exit"
    /\ UNCHANGED join_vars
    /\ UNCHANGED <<input_files, idx, success_count, calls, rets, scan_vars, start_pos,
                   writes, primary, fallback, io_failed>>

\* main after the loop: the tally and the exit status
MainExit ==
    /\ pc = "main" /\ idx >= Len(input_files)
    /\ exit_status' = IF success_count = Len(input_files) THEN 0 ELSE 1
    /\ pc' = "exit"
    /\ UNCHANGED join_vars
    /\ UNCHANGED <<input_files, idx, success_count, calls, rets, scan_vars, start_pos,
                   writes, primary, fallback, io_failed>>

Next ==
    \/ MainCall
    \/ OpenInput
    \/ EnterDecoder
    \/ ScanStep
    \/ WriteDecoded
    \/ SimpleExtractCall
    \/ MainCount
    \/ MainExit

Spec == Init /\ [][Next]_vars


----------------------------------------------------------------------------
(* extract_nsn_data_for_import.  A str is a sequence of one-character       *)
(* strings, a table row is the sequence of its fields as csv.reader yields  *)
(* them, a dict is a function on its keys.                                  *)

IsSpace(c) == c \in {" ", "\t", "\n", "\r"}

\* str.strip()
Strip(s) ==
    LET solid == {k \in 1..Len(s) : ~IsSpace(s[k])}
    IN  IF solid = {} THEN <<>>
        ELSE SubSeq(s, CHOOSE k \in solid : \A o \in solid : k <= o,
                       CHOOSE k \in solid : \A o \in solid : k >= o)

\* row[k].strip() if len(row) > k else ''
FieldOr(row, k) == IF Len(row) > k THEN Strip(row[k + 1]) ELSE <<>>

\* the nsn computed for a row: fsc + niin if fsc and niin else ''
nsn(row) ==
    LET niin == Strip(row[1])
        fsc == FieldOr(row, 1)
    IN  IF fsc # <<>> /\ niin # <<>> THEN fsc \o niin ELSE <<>>

\* NsnAccepted with the field count compared by > instead of >=
NsnAccepted_MoreThan7(row) ==
    /\ Len(row) > NSN_MIN_FIELDS
    /\ nsn(row) # <<>> /\ Len(nsn(row)) = NSN_LEN

\* the two if statements that decide whether a row is appended to nsn_data
NsnAccepted(row) ==
    /\ Len(row) >= NSN_MIN_FIELDS
    /\ nsn(row) # <<>> /\ Len(nsn(row)) = NSN_LEN

NsnItem(row) ==
    [NSN |-> nsn(row), NIIN |-> Strip(row[1]), FSC |-> FieldOr(row, 1),
     ITEM_NAME |-> FieldOr(row, 3), UNIT_ISSUE |-> FieldOr(row, 5),
     UNIT_PRICE |-> IF Len(row) > 6 THEN Strip(row[7]) ELSE <<"0">>,
     AAC |-> FieldOr(row, AAC_FIELD)]

\* the loop over the item-master rows, from row k on
RECURSIVE ReadNsnRows(_, _)
ReadNsnRows(rows, k) ==
    IF k > Len(rows) THEN <<>>
    ELSE (IF NsnAccepted(rows[k]) THEN <<NsnItem(rows[k])>> ELSE <<>>)
            \o ReadNsnRows(rows, k + 1)

\* part_map after one more part row
PartMapPut(m, row) ==
    IF Len(row) >= PART_MIN_FIELDS
    THEN LET niin == Strip(row[1])
             entry == [cage |-> Strip(row[2]), part_no |-> Strip(row[3])]
         IN  [x \in DOMAIN m \cup {niin} |->
                 IF x = niin
                 THEN (IF niin \in DOMAIN m THEN m[niin] ELSE <<>>) \o <<entry>>
                 ELSE m[x]]
    ELSE m

RECURSIVE ReadPartRows(_, _, _)
ReadPartRows(rows, k, m) ==
    IF k > Len(rows) THEN m ELSE ReadPartRows(rows, k + 1, PartMapPut(m, rows[k]))

\* cage_map after one more cage row
CageMapPut(m, row) ==
    IF Len(row) >= CAGE_MIN_FIELDS
    THEN LET cage == Strip(row[1])
         IN  [x \in DOMAIN m \cup {cage} |-> IF x = cage THEN Strip(row[2]) ELSE m[x]]
    ELSE m

RECURSIVE ReadCageRows(_, _, _)
ReadCageRows(rows, k, m) ==
    IF k > Len(rows) THEN m ELSE ReadCageRows(rows, k + 1, CageMapPut(m, rows[k]))

DigitChars == <<"0", "1", "2", "3", "4", "5", "6", "7", "8", "9">>

IsDigit(c) == \E v \in 1..10 : DigitChars[v] = c

DigitVal(c) == (CHOOSE v \in 1..10 : DigitChars[v] = c) - 1

\* int() of a string of digits
RECURSIVE DigitsToInt(_)
DigitsToInt(s) ==
    IF s = <<>> THEN 0
    ELSE 10 * DigitsToInt(SubSeq(s, 1, Len(s) - 1)) + DigitVal(s[Len(s)])

\* str() of a natural number
RECURSIVE IntToDigits(_)
IntToDigits(n) ==
    IF n < 10 THEN <<DigitChars[n + 1]>>
    ELSE Append(IntToDigits(n \div 10), DigitChars[(n % 10) + 1])

\* str.lower() on the letters float() looks at
Lower(c) ==
    CASE c = "N" -> "n" [] c = "A" -> "a" [] c = "I" -> "i" [] c = "F" -> "f"
      [] c = "T" -> "t" [] c = "Y" -> "y" [] OTHER -> c

\* float(s): surrounding whitespace and one sign are allowed; a run of digits
\* is a finite value, nan / inf / infinity in any case are the special values,
\* anything else raises ValueError.  The value is kept as an integer (units);
\* the model draws no decimal point, exponent or underscore.
ParseFloat(s) ==
    LET t == Strip(s)
        signed == t # <<>> /\ t[1] \in {"+", "-"}
        neg == signed /\ t[1] = "-"
        body == IF signed THEN SubSeq(t, 2, Len(t)) ELSE t
        low == [k \in 1..Len(body) |-> Lower(body[k])]
    IN  IF body # <<>> /\ \A k \in 1..Len(body) : IsDigit(body[k])
        THEN [kind |-> "finite", neg |-> neg, units |-> DigitsToInt(body)]
        ELSE IF low = <<"n", "a", "n">>
        THEN [kind |-> "nan", neg |-> FALSE, units |-> 0]
        ELSE IF low \in {<<"i", "n", "f">>, <<"i", "n", "f", "i", "n", "i", "t", "y">>}
        THEN [kind |-> "inf", neg |-> neg, units |-> 0]
        ELSE [kind |-> "ValueError", neg |-> FALSE, units |-> 0]

\* try: unit_price = float(...) / 100.0  except: unit_price = 0.0
\* (units counts hundredths of the result)
unit_price(s) ==
    LET v == ParseFloat(s)
    IN  IF v.kind = "ValueError" THEN [kind |-> "finite", neg |-> FALSE, units |-> 0]
        ELSE v

\* f"{unit_price:.2f}"
FormatPrice(v) ==
    LET sign == IF v.neg THEN <<"-">> ELSE <<>>
    IN  CASE v.kind = "nan" -> <<"n", "a", "n">>
          [] v.kind = "inf" -> sign \o <<"i", "n", "f">>
          [] OTHER -> sign \o IntToDigits(v.units \div 100) \o <<".">>
                        \o <<DigitChars[((v.units % 100) \div 10) + 1],
                             DigitChars[(v.units % 10) + 1]>>

\* FirstPart taking the last part of the list instead of the first
FirstPart_Last(item, pm) ==
    IF item.NIIN \in DOMAIN pm /\ pm[item.NIIN] # <<>>
    THEN <<pm[item.NIIN][Len(pm[item.NIIN])]>> ELSE <<>>

\* the manufacturer and part number looked up for an item
FirstPart(item, pm) ==
    IF item.NIIN \in DOMAIN pm /\ pm[item.NIIN] # <<>> THEN <<pm[item.NIIN][1]>> ELSE <<>>

manufacturer(item, pm, cm) ==
    IF FirstPart(item, pm) # <<>>
    THEN LET part == FirstPart(item, pm)[1]
         IN  IF part.cage \in DOMAIN cm THEN cm[part.cage] ELSE part.cage
    ELSE <<>>

part_number(item, pm) ==
    IF FirstPart(item, pm) # <<>> THEN FirstPart(item, pm)[1].part_no ELSE <<>>

CsvHeader ==
    <<"NSN", "LIN", "ITEM_NAME", "DESCRIPTION", "CATEGORY",
      "MANUFACTURER", "PART_NUMBER", "UNIT_ISSUE", "UNIT_PRICE", "AAC">>

\* the row written for an item
CsvRow(item, pm, cm) ==
    <<item.NSN, <<>>, item.ITEM_NAME, <<>>, item.FSC,
      manufacturer(item, pm, cm), part_number(item, pm),
      item.UNIT_ISSUE, FormatPrice(unit_price(item.UNIT_PRICE)), item.AAC>>

----------------------------------------------------------------------------
(* The tables the model draws. *)

NiinA == <<"0", "0", "1", "2", "3", "4", "5", "6", "7">>
NiinB == <<"0", "0", "9", "9", "9", "9", "9", "9", "9">>
Fsc == <<"5", "3", "1", "0">>
Filler == <<"x">>

\* an item-master row of n fields
NsnRow(niin, fsc, price, n) ==
    SubSeq(<<niin, fsc, Filler, <<"B", "O", "L", "T">>, Filler, <<" ", "E", "A">>, price,
             Filler, Filler, Filler, Filler, <<"D">>>>, 1, n)

NsnKinds ==
    { NsnRow(NiinA, Fsc, <<"1", "2", "3", "4", "5">>, 7),
      NsnRow(<<" ">> \o NiinA \o <<" ">>, <<" ">> \o Fsc, <<"5">>, 12),
      NsnRow(NiinB, Fsc, <<"a", "b", "c">>, 7),
      NsnRow(<<"1", "2", "3", "4", "5">>, Fsc, <<"7">>, 7),                          \* 4 + 5 characters
      NsnRow(<<"0", "1", "2", "3", "4", "5", "6", "7">>, <<"5", "3", "1", "0", "1">>, <<>>, 7),                            \* 5 + 8 characters
      NsnRow(<<"0", "0", "1", "2", "3", "4", "5", "6", "7", "8", "9", "0", "1">>, <<>>, <<"7">>, 7),                        \* no FSC, 13 characters
      NsnRow(NiinA, Fsc, <<"7">>, 6) }                        \* six fields

PriceFields ==
    { <<>>, <<"0">>, <<"5">>, <<"4", "5">>, <<"1", "0", "0">>, <<"0", "0", "7">>,
      <<"1", "2", "3", "4", "5">>, <<"9", "9", "9", "9", "9", "9">>,
      <<"a", "b", "c">>, <<"1", "2", "a">>, <<"n", "a", "n">>, <<"N", "a", "N">>,
      <<"i", "n", "f">>, <<"-", "i", "n", "f">>,
      <<"I", "n", "f", "i", "n", "i", "t", "y">>, <<"i", "n", "f", "i">>,
      <<"-", "5">>, <<"+", "7">>, <<"-", "0">>, <<"-">>, <<"1", " ", "2">> }

PartKinds ==
    { <<NiinA, <<"A">>, <<"X">>, Filler>>,
      <<NiinA, <<" ", "B">>, <<"Y", " ">>, Filler>>,
      <<<<" ">> \o NiinB, <<"A">>, <<"Z">>, Filler, Filler>>,
      <<NiinA, <<"C">>, <<"W">>>> }                            \* three fields

CageKinds ==
    { <<<<"A">>, <<"A", "C", "M", "E">>>>,
      <<<<" ", "A", " ">>, <<"A", "P", "E", "X">>, Filler>>,
      <<<<"A">>>> }                                            \* one field

Table(rows) == [exists |-> TRUE, rows |-> rows]
NoTable == [exists |-> FALSE, rows |-> <<>>]

\* the three tables hold at most MaxRows rows together; or the item-master
\* table alone holds one row with any of the price fields; or no table exists
JoinInit ==
    /\ \/ \E n \in SeqsUpTo(NsnKinds, MaxRows) :
          \E p \in SeqsUpTo(PartKinds, MaxRows - Len(n)) :
          \E c \in SeqsUpTo(CageKinds, MaxRows - Len(n) - Len(p)) :
             /\ nsn_file = Table(n) /\ part_file = Table(p) /\ cage_file = Table(c)
       \/ /\ nsn_file \in {Table(<<NsnRow(NiinA, Fsc, price, 7)>>) : price \in PriceFields}
          /\ part_file \in {NoTable, Table(<<<<NiinA, <<"A">>, <<"X">>, Filler>>>>)}
          /\ cage_file \in {NoTable, Table(<<<<<<"A">>, <<"A", "C", "M", "E">>>>>>)}
       \/ /\ nsn_file = NoTable /\ part_file = NoTable /\ cage_file = NoTable
    /\ jpc = "read_nsn"
    /\ nsn_data = <<>> /\ part_map = <<>> /\ cage_map = <<>> /\ csv_rows = <<>>
    /\ input_files = <<>> /\ idx = 0 /\ success_count = 0 /\ exit_status = -1
    /\ pc = "idle"
    /\ InitFile
    /\ calls = <<>> /\ rets = <<>> /\ io_failed = FALSE

\* Read NSN data
ReadNsn ==
    /\ jpc = "read_nsn"
    /\ nsn_data' = IF nsn_file.exists THEN ReadNsnRows(nsn_file.rows, 1) ELSE <<>>
    /\ jpc' = "read_part"
    /\ UNCHANGED <<nsn_file, part_file, cage_file, part_map, cage_map, csv_rows>>
    /\ UNCHANGED decoder_vars

\* Read part number cross-references
ReadPart ==
    /\ jpc = "read_part"
    /\ part_map' = IF part_file.exists THEN ReadPartRows(part_file.rows, 1, <<>>) ELSE <<>>
    /\ jpc' = "read_cage"
    /\ UNCHANGED <<nsn_file, part_file, cage_file, nsn_data, cage_map, csv_rows>>
    /\ UNCHANGED decoder_vars

\* Read CAGE data
ReadCage ==
    /\ jpc = "read_cage"
    /\ cage_map' = IF cage_file.exists THEN ReadCageRows(cage_file.rows, 1, <<>>) ELSE <<>>
    /\ jpc' = "write"
    /\ UNCHANGED <<nsn_file, part_file, cage_file, nsn_data, part_map, csv_rows>>
    /\ UNCHANGED decoder_vars

\* Write consolidated CSV for import
WriteCsv ==
    /\ jpc = "write"
    /\ csv_rows' = <<CsvHeader>>
                     \o [k \in 1..Len(nsn_data) |-> CsvRow(nsn_data[k], part_map, cage_map)]
    /\ jpc' = "done"
    /\ UNCHANGED <<nsn_file, part_file, cage_file, nsn_data, part_map, cage_map>>
    /\ UNCHANGED decoder_vars

JoinNext ==
    \/ ReadNsn
    \/ ReadPart
    \/ ReadCage
    \/ WriteCsv

SpecJoin == JoinInit /\ [][JoinNext]_vars

----------------------------------------------------------------------------
(* Vocabulary of the properties below.                                      *)

\* decompress_file is at work on input_files[idx]
InFile == pc \in {"open", "decode", "scan", "except", "returned"}

\* the while loop of _decompress_imd2 has ended: result is what it returns
ScanEnded == pc = "scan" /\ i >= Len(data)

HasSignature(d) == Len(d) >= 4 /\ SubSeq(d, 1, 4) = <<73, 77, 68, 50>>

\* the payload offset of a buffer, as the design states it
DesignOffset(d) == IF HasSignature(d) THEN 8 ELSE 0

\* the run marker pattern at position k, as the design states it
MarkerAt(d, k) == k + 2 < Len(d) /\ d[k + 1] = 0 /\ d[k + 2] > 0 /\ d[k + 2] < 128

\* one application of the scan rule to [k: position, out: output so far]
RefStep(d, st) ==
    IF st.k >= Len(d) THEN st
    ELSE IF MarkerAt(d, st.k)
         THEN [k |-> st.k + 3, out |-> st.out \o [x \in 1..d[st.k + 2] |-> d[st.k + 3]]]
         ELSE [k |-> st.k + 1, out |-> Append(st.out, d[st.k + 1])]

\* n applications of the scan rule; n is halved, and the first half is worked
\* out (mid.k is read) before the second starts, to keep the evaluation shallow
RECURSIVE RefSteps(_, _, _)
RefSteps(d, st, n) ==
    IF n = 0 THEN st
    ELSE IF n = 1 THEN RefStep(d, st)
    ELSE LET half == n \div 2
             mid == RefSteps(d, st, half)
         IN  IF mid.k >= Len(d) THEN mid ELSE RefSteps(d, mid, n - half)

\* the single left-to-right scan of d from position off (Len(d) steps reach the end)
RefScan(d, off) == RefSteps(d, [k |-> off, out |-> <<>>], Len(d)).out

----------------------------------------------------------------------------
\* C1: for a file that begins with the signature IMD2 the scan starts at byte
\* offset 8 of the file (signature and length field are neither scanned nor
\* copied), and for a file without the signature it starts at offset 0.
C1_ScanStartsAtPayload ==
    pc = "scan" => base + offset = DesignOffset(file)

\* C2: the decoder raises ValueError exactly when the file has fewer than 8
\* bytes; every file of 8 or more bytes is scanned and never reaches the
\* fallback through the length check.
C2_RaisesIffShorterThan8 ==
    (InFile /\ (pc = "scan" \/ primary = "ValueError"))
        => ((primary = "ValueError") <=> (Len(file) < 8))

\* C3: when the decoder has accepted its buffer and the payload of the buffer
\* (the bytes from the payload offset on) is exactly one run marker
\* (0x00, count, value) with 0 < count < 0x80, the decoder returns value
\* repeated count times; 0x00 0x03 0x41 gives AAA.
C3_SingleRunMarker ==
    (ScanEnded /\ Len(data) = DesignOffset(data) + 3
               /\ data[DesignOffset(data) + 1] = 0
               /\ data[DesignOffset(data) + 2] > 0
               /\ data[DesignOffset(data) + 2] < 128)
        => /\ result = [x \in 1..data[DesignOffset(data) + 2] |-> data[DesignOffset(data) + 3]]
           /\ (SubSeq(data, DesignOffset(data) + 1, Len(data)) = <<0, 3, 65>>
                  => result = <<65, 65, 65>>)

C3_Witness ==
    /\ ScanEnded
    /\ SubSeq(data, DesignOffset(data) + 1, Len(data)) = <<0, 3, 65>>
    /\ result = <<65, 65, 65>>

\* C4, the state part: once the length check has accepted the buffer the
\* decoder does not raise, its position stays within two bytes of the end, and
\* when the loop ends its result is the left-to-right scan of the buffer from
\* the payload offset; a payload without any marker pattern comes back
\* unchanged, and a trailing 0x00 or 0x00,count without a value byte is copied.
C4_ScanState ==
    pc = "scan" =>
        /\ primary = "running"
        /\ i <= Len(data) + 2
        /\ ENABLED Next
        /\ ScanEnded =>
            /\ result = RefScan(data, DesignOffset(data))
            /\ (\A k \in DesignOffset(data)..(Len(data) - 1) : ~MarkerAt(data, k))
                  => result = SubSeq(data, DesignOffset(data) + 1, Len(data))
            /\ (Len(result) > 0 /\ data[Len(data)] = 0)
                  => result[Len(result)] = 0
            /\ (Len(result) > 1 /\ Len(data) > DesignOffset(data) + 1
                    /\ data[Len(data) - 1] = 0 /\ data[Len(data)] = 3
                    /\ ~MarkerAt(data, Len(data) - 4))
                  => (result[Len(result) - 1] = 0 /\ result[Len(result)] = 3)

\* C4, the step part: every iteration of the loop moves the position forward,
\* by 3 after a marker whose run it appends and by 1 after a byte it copies.
C4_ScanSteps ==
    (pc = "scan" /\ pc' = "scan" /\ i' # i) =>
        /\ data' = data
        /\ IF MarkerAt(data, i)
           THEN i' = i + 3 /\ result' = result \o [x \in 1..data[i + 2] |-> data[i + 3]]
           ELSE i' = i + 1 /\ result' = Append(result, data[i + 1])

\* C4: the decoder is total on accepted input and computes the single
\* left-to-right scan from the payload offset.
C4_DecoderIsTheScan == [](C4_ScanState) /\ [][C4_ScanSteps]_vars

C4_Witness ==
    /\ ScanEnded
    /\ \E k \in DesignOffset(data)..(Len(data) - 1) : MarkerAt(data, k)
    /\ data[Len(data)] = 0
    /\ Len(result) > Len(data) - DesignOffset(data)

----------------------------------------------------------------------------
\* the bytes the cleaning keeps, as the design states them
Stripped(b) == b = 0 \/ (b < 32 /\ b # 9 /\ b # 10 /\ b # 13)

LastWrite == writes[Len(writes)]

\* C5: the extractor runs only after the primary path raised and never after
\* it completed; when decoding raised and the fallback could read the input
\* and write the output, the output is the extractor's and True is returned;
\* False is returned only when the fallback raised, which only a failed
\* open makes it do; the output of a file has at most one producer, and
\* exactly one when True is returned.
C5_FallbackOnlyAfterFailure ==
    InFile =>
        /\ (pc = "except" \/ fallback # "none") => primary \in {"ValueError", "OSError"}
        /\ primary = "completed" => (fallback = "none" /\ start_pos = -1)
        /\ Len(writes) <= 1
        /\ fallback = "raised" => io_failed
        /\ pc = "returned" =>
            /\ (fallback = "completed")
                  => /\ rets[Len(rets)] = TRUE
                     /\ writes = <<[by |-> "extractor", bytes |-> simple_extract(file)]>>
            /\ (primary = "completed")
                  => /\ rets[Len(rets)] = TRUE
                     /\ writes = <<[by |-> "decoder", bytes |-> result]>>
            /\ (rets[Len(rets)] = FALSE) <=> (fallback = "raised")
            /\ (rets[Len(rets)] = TRUE) <=> (Len(writes) = 1)
            /\ (primary = "ValueError" /\ fallback # "raised")
                  => (Len(writes) = 1 /\ LastWrite.by = "extractor")

C5_Witness ==
    /\ pc = "returned" /\ primary = "ValueError" /\ fallback = "completed"
    /\ rets[Len(rets)] = TRUE
    /\ Len(writes) = 1 /\ LastWrite.by = "extractor" /\ Len(LastWrite.bytes) > 0

C10_ExtractorStripsControls ==
    (pc = "returned" /\ fallback = "completed") =>
        LET tail == SubSeq(file, start_pos + 1, Len(file))
            out == LastWrite.bytes
        IN  /\ start_pos >= 0 /\ start_pos <= Len(file)
            /\ out = SelectSeq(tail, LAMBDA b : ~Stripped(b))
            /\ \A b \in 32..255 :
                  Len(SelectSeq(out, LAMBDA x : x = b)) = Len(SelectSeq(tail, LAMBDA x : x = b))
            /\ \A k \in 1..Len(out) : ~Stripped(out[k])
            /\ file = <<>> => out = <<>>

C10_Witness ==
    /\ pc = "returned" /\ fallback = "completed"
    /\ start_pos > 0
    /\ \E k \in (start_pos + 1)..Len(file) : file[k] = 3
    /\ \E k \in (start_pos + 1)..Len(file) : file[k] = 9
    /\ Len(LastWrite.bytes) < Len(file) - start_pos

C10_WitnessEmpty ==
    pc = "returned" /\ fallback = "completed" /\ file = <<>> /\ LastWrite.bytes = <<>>

----------------------------------------------------------------------------
(* The start offset of the extractor, on the state after it has read its    *)
(* buffer and scanned it.                                                    *)

ExtractorScanned == pc = "returned" /\ start_pos # -1

\* the positions of the 100 bytes that begin at offset k of d
WindowAt(d, k) == {p \in (k + 1)..(k + 100) : p <= Len(d)}

Alphanumeric(b) == b \in (48..57) \cup (65..90) \cup (97..122)

PrintableOrTabLfCr(b) == b \in (32..126) \cup {9, 10, 13}

\* the least member of a set of offsets, 0 for the empty set
FirstOr0(offsets) ==
    IF offsets = {} THEN 0 ELSE CHOOSE k \in offsets : \A other \in offsets : k <= other

\* the window at k is full and scores as plausible tabular text, the ratio
\* taken over the window length
PlausibleWindow(d, k) ==
    /\ k + 100 <= Len(d)
    /\ \E p \in WindowAt(d, k) : d[p] = 9
    /\ \E p \in WindowAt(d, k) : Alphanumeric(d[p])
    /\ 10 * Cardinality({p \in WindowAt(d, k) : PrintableOrTabLfCr(d[p])}) > 8 * 100

\* the offset is one the scan starts on: its byte is an ASCII letter or digit,
\* a tab, a line feed, a carriage return or a space; more than 100 bytes
\* follow from it; and of the characters the window decodes to, one is a tab,
\* one is a letter or digit, and more than 0.8 of them are printable or
\* tab, line feed or carriage return
ScanStartsOn(d, k) ==
    LET decoded == {p \in WindowAt(d, k) : d[p] < 128}
    IN  /\ Alphanumeric(d[k + 1]) \/ d[k + 1] \in {9, 10, 13, 32}
        /\ k + 100 < Len(d)
        /\ \E p \in decoded : d[p] = 9
        /\ \E p \in decoded : Alphanumeric(d[p])
        /\ 10 * Cardinality({p \in decoded : PrintableOrTabLfCr(d[p])})
              > 8 * Cardinality(decoded)

ScannedOffsets(d) == 0..((IF Len(d) < 1024 THEN Len(d) ELSE 1024) - 1)

\* C11 as stated: the start offset is the smallest offset in
\* [0, min(1024, buffer length)) whose full 100-byte window has a tab, an
\* alphanumeric character and more than 0.8 of the window length printable or
\* tab/LF/CR, whatever the byte at the offset is; 0 when there is none.
C11_StartIsFirstPlausibleWindow ==
    ExtractorScanned =>
        start_pos = FirstOr0({k \in ScannedOffsets(file) : PlausibleWindow(file, k)})

\* C11 as amended: the start offset is the smallest offset in
\* [0, min(1024, buffer length)) at which the byte is an ASCII letter or
\* digit, tab, LF, CR or space, which more than 100 bytes follow from, and
\* whose 100-byte window decodes (undecodable bytes dropped) to characters of
\* which one is a tab, one is alphanumeric and more than 0.8 are printable or
\* tab/LF/CR; 0 when there is none.
C11_StartIsFirstOffsetTheScanStartsOn ==
    ExtractorScanned =>
        LET starts == {k \in ScannedOffsets(file) : ScanStartsOn(file, k)}
        IN  /\ starts = {} => start_pos = 0
            /\ starts # {} => (start_pos \in starts /\ \A k \in starts : start_pos <= k)

\* the scan passed over a plausible window because of its first byte and
\* started on a later offset
C11_Witness ==
    /\ ExtractorScanned
    /\ start_pos > 0
    /\ \E k \in 0..(start_pos - 1) : PlausibleWindow(file, k)
    /\ ScanStartsOn(file, start_pos)

----------------------------------------------------------------------------
(* Properties of extract_nsn_data_for_import, on the state after the CSV    *)
(* has been written.                                                         *)

\* the consolidated rows, without the header row
Emitted == Tail(csv_rows)

\* an item-master row whose trimmed FSC and NIIN together have 13 characters
Has13(r) == Len(r) >= 7 /\ Len(Strip(r[2])) + Len(Strip(r[1])) = 13

\* the same, with neither of the two empty
Has13OfBoth(r) == Has13(r) /\ Strip(r[1]) # <<>> /\ Strip(r[2]) # <<>>

\* the emitted rows are the rows of sel, one each and in order
EmittedAre(sel) ==
    /\ Len(Emitted) = Len(sel)
    /\ \A k \in 1..Len(sel) :
        /\ Emitted[k][1] = Strip(sel[k][2]) \o Strip(sel[k][1])
        /\ Emitted[k][3] = Strip(sel[k][4])
        /\ Emitted[k][5] = Strip(sel[k][2])
        /\ Emitted[k][8] = Strip(sel[k][6])
        /\ Emitted[k][10] = (IF Len(sel[k]) > 11 THEN Strip(sel[k][12]) ELSE <<>>)

\* C7 as stated: the emitted rows are exactly the item-master rows of at least
\* 7 fields whose trimmed FSC + NIIN has length 13, in the order read.
C7_Length13IsTheOnlyGate ==
    jpc = "done" => EmittedAre(SelectSeq(nsn_file.rows, Has13))

\* C7, amended: the emitted rows are exactly the item-master rows of at least
\* 7 fields whose trimmed FSC and trimmed NIIN are both non-empty and together
\* have length 13, one row each, in the order read.
C7_Length13OfBothIsTheGate ==
    jpc = "done" => EmittedAre(SelectSeq(nsn_file.rows, Has13OfBoth))

C7_Witness ==
    /\ jpc = "done"
    /\ Len(nsn_file.rows) = 3
    /\ Has13OfBoth(nsn_file.rows[1]) /\ Len(nsn_file.rows[1]) = 7
    /\ Len(nsn_file.rows[2]) >= 7 /\ Len(Strip(nsn_file.rows[2][1])) = 5
    /\ Has13OfBoth(nsn_file.rows[3]) /\ nsn_file.rows[3] # nsn_file.rows[1]
    /\ Len(Emitted) = 2
    /\ Emitted[1][1] = Fsc \o NiinA

\* the part rows (at least 4 fields) of an item, in read order
PartRowsOf(niin) ==
    SelectSeq(part_file.rows, LAMBDA r : Len(r) >= 4 /\ Strip(r[1]) = niin)

\* the cage rows (at least 2 fields) of a cage code, in read order
CageRowsOf(code) ==
    SelectSeq(cage_file.rows, LAMBDA r : Len(r) >= 2 /\ Strip(r[1]) = code)

\* C8: every emitted row takes PART_NUMBER from the first part row read for
\* the item's NIIN and MANUFACTURER from the last cage row read for that part
\* row's cage code, or the cage code itself when no cage row has it; later
\* part rows have no influence; without a part row both columns are empty.
C8_FirstPartLastCage ==
    jpc = "done" =>
        \A k \in 1..Len(Emitted) :
            LET parts == PartRowsOf(nsn_data[k].NIIN)
                code == Strip(parts[1][2])
                names == CageRowsOf(code)
            IN  IF parts # <<>>
                THEN /\ Emitted[k][7] = Strip(parts[1][3])
                     /\ Emitted[k][6] = (IF names # <<>> THEN Strip(names[Len(names)][2])
                                         ELSE code)
                ELSE Emitted[k][6] = <<>> /\ Emitted[k][7] = <<>>

C8_Witness ==
    /\ jpc = "done" /\ Len(Emitted) = 1
    /\ Len(PartRowsOf(nsn_data[1].NIIN)) = 2
    /\ Strip(PartRowsOf(nsn_data[1].NIIN)[1][2]) = <<"A">>
    /\ Strip(PartRowsOf(nsn_data[1].NIIN)[2][2]) = <<"B">>
    /\ Len(CageRowsOf(<<"A">>)) = 1
    /\ Emitted[1][6] = <<"A", "C", "M", "E">>
    /\ Emitted[1][7] = <<"X">>

AllDigits(f) == f # <<>> /\ \A k \in 1..Len(f) : IsDigit(f[k])

\* a price field that is no numeral: not an optionally signed run of digits
NotANumber(f) ==
    ~AllDigits(f) /\ ~(Len(f) > 1 /\ f[1] \in {"+", "-"} /\ AllDigits(Tail(f)))

\* C9: UNIT_PRICE of every emitted row has exactly two fractional digits; a
\* price field of digits denoting c cents gives c div 100, a point and c mod
\* 100 in two digits; an empty or non-numeric price field (nan and inf
\* included) gives 0.00.
C9_PriceHasTwoDecimals ==
    jpc = "done" =>
        \A k \in 1..Len(Emitted) :
            LET f == nsn_data[k].UNIT_PRICE
                out == Emitted[k][9]
                c == DigitsToInt(f)
            IN  /\ Len(out) >= 4 /\ out[Len(out) - 2] = "."
                /\ IsDigit(out[Len(out) - 1]) /\ IsDigit(out[Len(out)])
                /\ AllDigits(f) =>
                      out = IntToDigits(c \div 100) \o <<".">>
                              \o IntToDigits((c % 100) \div 10) \o IntToDigits(c % 10)
                /\ NotANumber(f) => out = <<"0", ".", "0", "0">>

====
